---- MODULE Spec2Model ----
(***************************************************************************)
(* A model of data-processing/convert_events.py: the converter of the      *)
(* seminar spreadsheet (CSV) into meetings-data.json.                      *)
(*                                                                         *)
(* Python str values are TLA+ strings (TLC evaluates Len, SubSeq and \o on *)
(* them).  A Python value that may be None is a tuple: <<>> is None and    *)
(* <<v>> is the value v.  A datetime at midnight is a record [y, m, d].    *)
(***************************************************************************)
EXTENDS Integers, Sequences, FiniteSets, TLC

VARIABLES
    pc,        \* position of the run (pipeline) or of the calls of the pure functions
    meetings,  \* convert_csv_to_json: the list `meetings`
    last,      \* the row read last, the clock it saw, and what became of it
    nread,     \* rows read so far (row_num - 2)
    unsorted,  \* `meetings` as it was when the loop ended, before the sort
    outfile,   \* the output file: <<>> not opened, <<list>> the list written
    returned,  \* convert_csv_to_json's return value: <<>> still running
    arg,       \* the argument of the pure function applied
    res,       \* its result
    res2       \* the result of applying it to its own result

vars == <<pc, meetings, last, nread, unsorted, outfile, returned, arg, res, res2>>

None == <<>>
Some(v) == <<v>>
IsNone(o) == o = <<>>
Val(o) == o[1]

-----------------------------------------------------------------------------
(* Characters and strings *)

Ch(s, i) == SubSeq(s, i, i)

Digits == "0123456789"
UpperCase == "ABCDEFGHIJKLMNOPQRSTUVWXYZ"
LowerCase == "abcdefghijklmnopqrstuvwxyz"

\* str.isspace() / the regex class \s, on the characters the inputs use
WhiteSpace == {" ", "\t", "\n", "\r"}

\* the value of each digit character
DigitValues ==
    [c \in {Ch(Digits, i) : i \in 1..Len(Digits)} |->
        (CHOOSE i \in 1..Len(Digits) : Ch(Digits, i) = c) - 1]

IsDigit(c) == c \in DOMAIN DigitValues
DigitVal(c) == DigitValues[c]
AllDigits(s) == \A i \in 1..Len(s) : IsDigit(Ch(s, i))

RECURSIVE ToInt(_)
ToInt(s) ==
    IF s = "" THEN 0
    ELSE ToInt(SubSeq(s, 1, Len(s) - 1)) * 10 + DigitVal(Ch(s, Len(s)))

RECURSIVE ToStr(_)
ToStr(n) ==
    IF n < 10 THEN Ch(Digits, n + 1)
    ELSE ToStr(n \div 10) \o Ch(Digits, (n % 10) + 1)

\* the %02d of strftime's %d and %m
Pad2(n) == IF n < 10 THEN "0" \o ToStr(n) ELSE ToStr(n)

\* the lower-case letter of each upper-case letter
LowerOf ==
    [c \in {Ch(UpperCase, i) : i \in 1..Len(UpperCase)} |->
        Ch(LowerCase, CHOOSE i \in 1..Len(UpperCase) : Ch(UpperCase, i) = c)]

LowerCh(c) == IF c \in DOMAIN LowerOf THEN LowerOf[c] ELSE c

RECURSIVE lower(_)
lower(s) == IF s = "" THEN "" ELSE LowerCh(Ch(s, 1)) \o lower(Tail(s))

RECURSIVE lstrip(_)
lstrip(s) ==
    IF s # "" /\ Ch(s, 1) \in WhiteSpace THEN lstrip(Tail(s)) ELSE s

RECURSIVE rstrip(_)
rstrip(s) ==
    IF s # "" /\ Ch(s, Len(s)) \in WhiteSpace
    THEN rstrip(SubSeq(s, 1, Len(s) - 1))
    ELSE s

strip(s) == rstrip(lstrip(s))

\* `sub in s`
Contains(sub, s) ==
    \E i \in 1..(Len(s) + 1) :
        i + Len(sub) - 1 <= Len(s) /\ SubSeq(s, i, i + Len(sub) - 1) = sub

\* the index of the first character of s from the i-th on that is in set,
\* 0 when there is none
RECURSIVE FirstFrom(_, _, _)
FirstFrom(s, set, i) ==
    IF i > Len(s) THEN 0
    ELSE IF Ch(s, i) \in set THEN i
    ELSE FirstFrom(s, set, i + 1)

FirstIn(s, set) == FirstFrom(s, set, 1)

\* str.split(sep) for a one-character sep
RECURSIVE Split(_, _)
Split(s, sep) ==
    LET i == FirstIn(s, {sep})
    IN  IF i = 0 THEN <<s>>
        ELSE <<SubSeq(s, 1, i - 1)>> \o Split(SubSeq(s, i + 1, Len(s)), sep)

\* re.sub(r'\s+', ' ', s): every maximal run of whitespace becomes one space
RECURSIVE CollapseWhitespace(_)
CollapseWhitespace(s) ==
    IF s = "" THEN ""
    ELSE IF Ch(s, 1) \in WhiteSpace
         THEN " " \o CollapseWhitespace(lstrip(s))
         ELSE Ch(s, 1) \o CollapseWhitespace(Tail(s))

\* the pieces of s between its runs of whitespace (the format's ' ' is \s+)
RECURSIVE SplitWhitespace(_)
SplitWhitespace(s) ==
    LET i == FirstIn(s, WhiteSpace)
    IN  IF i = 0 THEN <<s>>
        ELSE <<SubSeq(s, 1, i - 1)>> \o SplitWhitespace(lstrip(SubSeq(s, i, Len(s))))

-----------------------------------------------------------------------------
(* datetime *)

IsLeap(y) == (y % 4 = 0 /\ y % 100 # 0) \/ y % 400 = 0

DaysInMonth(y, m) ==
    IF m = 2 THEN (IF IsLeap(y) THEN 29 ELSE 28)
    ELSE IF m \in {4, 6, 9, 11} THEN 30 ELSE 31

\* datetime(y, m, d) raises ValueError outside these ranges
ValidDate(y, m, d) ==
    /\ y \in 1..9999
    /\ m \in 1..12
    /\ d \in 1..DaysInMonth(y, m)

Date(y, m, d) == [y |-> y, m |-> m, d |-> d]

\* the order of datetimes at midnight
DateKey(dt) == dt.y * 10000 + dt.m * 100 + dt.d
DateGT(a, b) == DateKey(a) > DateKey(b)
DateLE(a, b) == DateKey(a) <= DateKey(b)

MonthNames ==
    <<"january", "february", "march", "april", "may", "june", "july",
      "august", "september", "october", "november", "december">>

MonthAbbr ==
    <<"jan", "feb", "mar", "apr", "may", "jun", "jul", "aug", "sep", "oct",
      "nov", "dec">>

\* One directive of _strptime's regular expression against the piece p of the
\* input between two separators: the field's value, 0 when p does not match.
\* %d is 3[0-1]|[1-2]\d|0[1-9]|[1-9]| [1-9], %m is 1[0-2]|0[1-9]|[1-9], %Y is
\* \d\d\d\d, %B and %b are the month names, matched ignoring case.
NameIndex(names, p) ==
    IF \E i \in 1..Len(names) : names[i] = lower(p)
    THEN CHOOSE i \in 1..Len(names) : names[i] = lower(p)
    ELSE 0

MatchDirective(dv, p) ==
    CASE dv = "d" ->
            IF Len(p) \in 1..2 /\ AllDigits(p) /\ ToInt(p) \in 1..31
            THEN ToInt(p)
            ELSE IF Len(p) = 2 /\ Ch(p, 1) = " " /\ IsDigit(Ch(p, 2))
                    /\ ToInt(Tail(p)) \in 1..9
                 THEN ToInt(Tail(p))
                 ELSE 0
      [] dv = "m" ->
            IF Len(p) \in 1..2 /\ AllDigits(p) /\ ToInt(p) \in 1..12
            THEN ToInt(p)
            ELSE 0
      [] dv = "Y" ->
            IF Len(p) = 4 /\ AllDigits(p) THEN ToInt(p) ELSE 0
      [] dv = "B" -> NameIndex(MonthNames, p)
      [] dv = "b" -> NameIndex(MonthAbbr, p)

\* A format of three directives with one separator between them.
Format(sep, f1, f2, f3) == [sep |-> sep, fields |-> <<f1, f2, f3>>]

FieldOf(fmt, parts, kinds) ==
    LET i == CHOOSE k \in 1..3 : fmt.fields[k] \in kinds
    IN  MatchDirective(fmt.fields[i], parts[i])

\* datetime(y, m, d) of the matched fields: None for ValueError
DateOfFields(y, m, d) ==
    IF y = 0 \/ m = 0 \/ d = 0 \/ ~ValidDate(y, m, d)
    THEN None
    ELSE Some(Date(y, m, d))

DateOfParts(fmt, parts) ==
    IF Len(parts) # 3 THEN None
    ELSE DateOfFields(FieldOf(fmt, parts, {"Y"}),
                      FieldOf(fmt, parts, {"m", "B", "b"}),
                      FieldOf(fmt, parts, {"d"}))

\* datetime.strptime(s, fmt): None for ValueError
strptime(s, fmt) ==
    DateOfParts(fmt, IF fmt.sep = " " THEN SplitWhitespace(s)
                     ELSE Split(s, fmt.sep))

\* date_obj.strftime("%d.%m.%Y"); %Y is the year in decimal
strftime(dt) == Pad2(dt.d) \o "." \o Pad2(dt.m) \o "." \o ToStr(dt.y)

FmtDot == Format(".", "d", "m", "Y")
FmtDMY == Format("/", "d", "m", "Y")
FmtMDY == Format("/", "m", "d", "Y")

other_formats ==
    << Format("-", "d", "m", "Y"), Format("-", "Y", "m", "d"),
       Format(" ", "d", "B", "Y"), Format(" ", "d", "b", "Y"),
       Format("-", "m", "d", "Y") >>

\* cutoff_date = datetime(2022, 9, 29)
cutoff_date == Date(2022, 9, 29)

\* the loop over other_formats from the i-th on; parsed is strptime(s, i-th)
RECURSIVE TryOtherFormats(_, _, _)
TryOtherFormats(s, i, parsed) ==
    IF ~IsNone(parsed) THEN Some(strftime(Val(parsed)))
    ELSE IF i = Len(other_formats) THEN None
    ELSE TryOtherFormats(s, i + 1, strptime(s, other_formats[i + 1]))

\* The try blocks of parse_date in their order, on the stripped string s:
\* dot, dmy and mdy are what strptime makes of s under "%d.%m.%Y", "%d/%m/%Y"
\* and "%m/%d/%Y" (None where it raises ValueError).
ParseStripped(s, dot, dmy, mdy) ==
    IF ~IsNone(dot) THEN Some(s)
    ELSE IF ~IsNone(dmy) /\ DateGT(Val(dmy), cutoff_date)
    THEN Some(strftime(Val(dmy)))
    ELSE IF ~IsNone(mdy) /\ DateLE(Val(mdy), cutoff_date)
    THEN Some(strftime(Val(mdy)))
    \* the "ambiguous dates" block tries the same two again
    ELSE IF ~IsNone(mdy) /\ DateLE(Val(mdy), cutoff_date)
    THEN Some(strftime(Val(mdy)))
    ELSE IF ~IsNone(dmy) /\ DateGT(Val(dmy), cutoff_date)
    THEN Some(strftime(Val(dmy)))
    ELSE TryOtherFormats(s, 1, strptime(s, other_formats[1]))

ParseNonEmpty(s) ==
    ParseStripped(s, strptime(s, FmtDot), strptime(s, FmtDMY),
                  strptime(s, FmtMDY))

\* parse_date(date_str): Some(DD.MM.YYYY) or None
parse_date(date_str) ==
    IF IsNone(date_str) \/ Val(date_str) = "" \/ strip(Val(date_str)) = ""
    THEN None
    ELSE ParseNonEmpty(strip(Val(date_str)))

-----------------------------------------------------------------------------
(* Rows and the field helpers *)

\* row.get(key, ''): a column the header lacks reads as '', a field a short
\* line lacks reads as None (csv.DictReader's restval)
Get(row, key) == IF key \in DOMAIN row THEN row[key] ELSE Some("")

\* re.sub(r'\s', ' ', s): every whitespace character becomes a space
RECURSIVE ReplaceWhitespace(_)
ReplaceWhitespace(s) ==
    IF s = "" THEN ""
    ELSE (IF Ch(s, 1) \in WhiteSpace THEN " " ELSE Ch(s, 1))
         \o ReplaceWhitespace(Tail(s))

\* clean_text with the pattern \s in place of \s+: runs are not collapsed
clean_text_no_collapse(text) ==
    IF IsNone(text) \/ Val(text) = "" \/ strip(Val(text)) = ""
    THEN ""
    ELSE ReplaceWhitespace(strip(Val(text)))

\* clean_text(text): text is None or a string; the result is a string
clean_text(text) ==
    IF IsNone(text) \/ Val(text) = "" \/ strip(Val(text)) = ""
    THEN ""
    ELSE CollapseWhitespace(strip(Val(text)))

\* determine_session_type with the event name's hints tested before the column
determine_session_type_name_first(row) ==
    LET type_field == clean_text(Get(row, "Type of Session"))
        event_name == clean_text(Get(row, "Event Name"))
    IN  IF Contains("reading group", lower(event_name))
           \/ Contains("journal club", lower(event_name))
        THEN "journal_club"
        ELSE IF lower(type_field) \in {"journal club", "reading group"}
        THEN "journal_club"
        ELSE "seminar"

determine_session_type(row) ==
    LET type_field == clean_text(Get(row, "Type of Session"))
        event_name == clean_text(Get(row, "Event Name"))
    IN  IF lower(type_field) \in {"seminar", "talk", "presentation"}
        THEN "seminar"
        ELSE IF lower(type_field) \in {"journal club", "reading group"}
        THEN "journal_club"
        ELSE IF Contains("reading group", lower(event_name))
                \/ Contains("journal club", lower(event_name))
        THEN "journal_club"
        ELSE IF lower(event_name) \in {"tba", "to be announced", ""}
        THEN "seminar"
        ELSE "seminar"

\* is_free_slot without the two .lower() calls
is_free_slot_case_sensitive(row) ==
    LET presenter == clean_text(Get(row, "Presenter"))
        event_name == clean_text(Get(row, "Event Name"))
    IN  \/ presenter = "free for booking"
        \/ event_name = "free for booking"
        \/ (presenter = "" /\ event_name = "")

is_free_slot(row) ==
    LET presenter == clean_text(Get(row, "Presenter"))
        event_name == clean_text(Get(row, "Event Name"))
    IN  \/ lower(presenter) = "free for booking"
        \/ lower(event_name) = "free for booking"
        \/ (presenter = "" /\ event_name = "")

\* the comparison with < in place of <=
MeetingLTToday(meeting_date, today) ==
    \/ DateKey(meeting_date) < DateKey(today.date)
    \/ (DateKey(meeting_date) = DateKey(today.date) /\ 0 < today.secs)

\* meeting_date <= today, where today = datetime.now() is a date and the
\* seconds since its midnight, and meeting_date is a midnight
MeetingLEToday(meeting_date, today) ==
    \/ DateKey(meeting_date) < DateKey(today.date)
    \/ (DateKey(meeting_date) = DateKey(today.date) /\ 0 <= today.secs)

\* get_location_info(row, meeting_date), with the clock it reads as today
get_location_info(row, meeting_date, today) ==
    IF MeetingLEToday(meeting_date, today) THEN ""
    ELSE LET room_field == clean_text(Get(row, "Room"))
             zoom_field == clean_text(Get(row, "Zoom Link"))
         IN  IF room_field # "" /\ zoom_field # ""
             THEN room_field \o " (Alan Turing Institute) & online"
             ELSE IF room_field # ""
             THEN room_field \o " (Alan Turing Institute) & online"
             ELSE IF zoom_field # "" THEN "Online (Zoom)"
             ELSE "TBA"

\* cutoff_date = datetime(2025, 7, 28) of should_include_detailed_info
detail_cutoff_date == Date(2025, 7, 28)

should_include_detailed_info(meeting_date) ==
    DateGT(meeting_date, detail_cutoff_date)

\* get_abstract_info giving "TBA" to every empty abstract, journal clubs too
get_abstract_info_always_tba(row, meeting_date, session_type) ==
    IF ~should_include_detailed_info(meeting_date) THEN None
    ELSE LET abstract == clean_text(Get(row, "Abstract"))
         IN  IF abstract # "" THEN Some(abstract) ELSE Some("TBA")

\* get_abstract_info: Some(abstract) or None
get_abstract_info(row, meeting_date, session_type) ==
    IF ~should_include_detailed_info(meeting_date) THEN None
    ELSE LET abstract == clean_text(Get(row, "Abstract"))
         IN  IF abstract # "" THEN Some(abstract)
             ELSE IF session_type = "seminar" THEN Some("TBA")
             ELSE None

\* get_bio_info: Some(bio) or None
get_bio_info(row, meeting_date, session_type) ==
    IF ~should_include_detailed_info(meeting_date) THEN None
    ELSE IF session_type # "seminar" THEN None
    ELSE LET bio == clean_text(Get(row, "Bio for Speaker"))
         IN  IF bio # "" THEN Some(bio) ELSE None

\* [link.strip() for link in parts if link.strip()]
RECURSIVE StripNonEmpty(_)
StripNonEmpty(parts) ==
    IF parts = <<>> THEN <<>>
    ELSE IF strip(Head(parts)) # ""
         THEN <<strip(Head(parts))>> \o StripNonEmpty(Tail(parts))
         ELSE StripNonEmpty(Tail(parts))

\* get_paper_links: Some(list of links) or None
get_paper_links(row, meeting_date) ==
    IF ~should_include_detailed_info(meeting_date) THEN None
    ELSE LET paper_links == clean_text(Get(row, "Paper Links"))
         IN  IF paper_links = "" THEN None
             ELSE LET links == StripNonEmpty(Split(paper_links, ","))
                  IN  IF links # <<>> THEN Some(links) ELSE None

-----------------------------------------------------------------------------
(* convert_csv_to_json: one row *)

\* a dict entry that is set only when the value is not None
Entry(key, opt) == IF IsNone(opt) THEN <<>> ELSE key :> Val(opt)

\* the meeting dict of a row that passed the filters
BuildMeeting(row, date_str, meeting_date, today) ==
    LET presenter == clean_text(Get(row, "Presenter"))
        event_name == clean_text(Get(row, "Event Name"))
        session_type == determine_session_type(row)
        location == get_location_info(row, meeting_date, today)
        authors == IF "authors" \in DOMAIN row
                   THEN clean_text(row["authors"]) ELSE ""
    IN  [ date |-> date_str,
          presenter |-> IF presenter # "" THEN presenter ELSE "TBA",
          title |-> IF event_name # "" THEN event_name ELSE "TBA",
          type |-> session_type ]
        @@ Entry("location", IF location # "" THEN Some(location) ELSE None)
        @@ Entry("abstract", get_abstract_info(row, meeting_date, session_type))
        @@ Entry("presenterBio", get_bio_info(row, meeting_date, session_type))
        @@ Entry("paper_links", get_paper_links(row, meeting_date))
        @@ Entry("authors", IF authors # "" THEN Some(authors) ELSE None)

Outcome(kind, rec) == [outcome |-> kind, rec |-> rec]

\* the row once meeting_date = datetime.strptime(date_str, "%d.%m.%Y") is
\* known: None where that raises, which the row's except catches
ProcessDated(row, today, date_str, meeting_date) ==
    IF IsNone(meeting_date) THEN Outcome("error", None)
    ELSE IF is_free_slot(row) THEN Outcome("free_slot", None)
    ELSE IF clean_text(Get(row, "Presenter")) = ""
            /\ clean_text(Get(row, "Event Name")) = ""
    THEN Outcome("no_fields", None)
    ELSE Outcome("added",
                 Some(BuildMeeting(row, date_str, Val(meeting_date), today)))

\* the row once date_str = parse_date(row.get('Date', '')) is known
ProcessParsed(row, today, date_str) ==
    IF IsNone(date_str) THEN Outcome("invalid_date", None)
    ELSE ProcessDated(row, today, Val(date_str),
                      strptime(Val(date_str), FmtDot))

\* The body of the for loop for one row: what became of the row ("added", or
\* the reason it was skipped) and the meeting dict when it was added.
ProcessRow(row, today) ==
    ProcessParsed(row, today, parse_date(Get(row, "Date")))

\* meetings after the row: meetings.append(meeting), or `continue`
AfterRow(ms, result) ==
    IF result.outcome = "added" THEN Append(ms, Val(result.rec)) ELSE ms

-----------------------------------------------------------------------------
(* convert_csv_to_json: the sort *)

\* the sort key: datetime.strptime(x['date'], "%d.%m.%Y")
SortKey(x) == strptime(x.date, FmtDot)

\* x put after the entries of the descending list whose key is not smaller:
\* list.sort(reverse=True) is stable
InsertDescending(sorted, x) ==
    LET n == Cardinality({i \in DOMAIN sorted :
                 DateKey(Val(SortKey(sorted[i]))) >= DateKey(Val(SortKey(x)))})
    IN  SubSeq(sorted, 1, n) \o <<x>> \o SubSeq(sorted, n + 1, Len(sorted))

RECURSIVE SortFrom(_, _)
SortFrom(sorted, rest) ==
    IF rest = <<>> THEN sorted
    ELSE SortFrom(InsertDescending(sorted, Head(rest)), Tail(rest))

RECURSIVE Reverse(_)
Reverse(seq) ==
    IF seq = <<>> THEN <<>> ELSE Append(Reverse(Tail(seq)), Head(seq))

\* an ascending stable sort turned round: sorted(...)[::-1], which turns the
\* records of one date round as well
SortMeetingsReversed(ms) ==
    IF \E i \in DOMAIN ms : IsNone(SortKey(ms[i])) THEN ms
    ELSE SortFrom(<<>>, Reverse(ms))

\* meetings.sort(key=..., reverse=True) inside its try: a key that raises
\* leaves the list as it was
SortMeetings(ms) ==
    IF \E i \in DOMAIN ms : IsNone(SortKey(ms[i])) THEN ms
    ELSE SortFrom(<<>>, ms)

-----------------------------------------------------------------------------
(* Inputs *)

\* the most rows a file holds
MaxRows == 2

Columns ==
    {"Date", "Presenter", "Event Name", "Type of Session", "Room", "Zoom Link",
     "Abstract", "Bio for Speaker", "Paper Links"}

\* a row of a sheet with every column, empty but for these three
Row(date, presenter, event_name) ==
    [c \in Columns |->
        Some(CASE c = "Date" -> date
               [] c = "Presenter" -> presenter
               [] c = "Event Name" -> event_name
               [] OTHER -> "")]

With(row, key, v) == (key :> Some(v)) @@ row

ScenarioA == Row("15/03/2021", "Dr. Smith", "Intro to NLP")
ScenarioB == Row("05/10/2023", "Free for booking", "")
ScenarioC == Row("01.08.2025", "Dr. Lee", "Journal Club: Transformers")

\* rows that differ in their date, presenter and event name
BasicRows ==
    { ScenarioA, ScenarioB, ScenarioC,
      Row("03/15/2021", "Dr. Smith", "Intro to NLP"),
      Row("05/10/2023", "Dr. Jones", "Parsing"),
      Row("1.8.2025", "Dr. Kim", "Tokenisers"),
      Row("", "Dr. Smith", "Intro to NLP"),
      Row("01.08.2025", "  FREE  for\nBooking ", "Talk"),
      Row("01.08.2025", "Dr. Lee", "free FOR booking"),
      Row("01.08.2025", "  ", ""),
      Row("01.08.2025", "Free for booking soon", ""),
      Row("2025-08-01", "", "NLP Reading Group"),
      \* a short line: the fields after the date are None
      [c \in Columns |-> IF c = "Date" THEN Some("05/10/2023") ELSE None] }

\* rows of a sheet without the optional columns, and with an authors column
AuthorRow(date, presenter, event_name, authors) ==
    [c \in {"Date", "Presenter", "Event Name", "authors"} |->
        Some(CASE c = "Date" -> date
               [] c = "Presenter" -> presenter
               [] c = "Event Name" -> event_name
               [] OTHER -> authors)]

AuthorRows ==
    { AuthorRow("05.08.2025", "Dr. Kim", "Parsing", " A. Author,\nB. Author "),
      AuthorRow("5/8/2025", "Dr. Lee", "Reading group", ""),
      AuthorRow("05.08.2025", "free for booking", "", "A. Author") }

\* rows on both sides of the detail cutoff, of both types, with and without
\* an abstract
DetailRows ==
    { With(With(Row(d, "Dr. Lee", "Attention"), "Type of Session", t),
           "Abstract", a) :
        d \in {"27.07.2025", "28.07.2025", "01.08.2025"},
        t \in {"", "Journal Club"},
        a \in {"", " An\nabstract "} }

\* rows with a room, a link, a bio, paper links
LocationRows ==
    { With(Row("01.08.2025", "Dr. Lee", "Attention"), "Room", " Room  1 "),
      With(Row("01.08.2025", "Dr. Lee", "Attention"), "Zoom Link",
           "https://zoom.example/j/1"),
      With(With(With(With(Row("05.08.2025", "Dr. Kim", "Parsing"),
           "Room", "Room 1"), "Zoom Link", "https://zoom.example/j/1"),
           "Bio for Speaker", " Kim is\ta parser. "),
           "Paper Links", "https://a.example/1, https://a.example/2,, "),
      With(Row("05.08.2025", "Dr. Kim", "Journal Club"), "Paper Links", " , ") }

RowSet == BasicRows \cup DetailRows \cup LocationRows \cup AuthorRows

\* the values datetime.now() may return: the wall clock, read once per row
Clock ==
    { [date |-> Date(2025, 7, 31), secs |-> 43200],
      [date |-> Date(2025, 8, 1), secs |-> 0] }

\* ProcessRow on every row and clock value of the inputs, evaluated once
RowResults == [row \in RowSet, today \in Clock |-> ProcessRow(row, today)]

-----------------------------------------------------------------------------
(* convert_csv_to_json as a state machine *)

NoRow == [row |-> <<>>, at |-> <<>>, outcome |-> "none", rec |-> None]

NoCall == arg = None /\ res = None /\ res2 = None

PipelineIdle ==
    /\ meetings = <<>>
    /\ last = NoRow
    /\ nread = 0
    /\ unsorted = <<>>
    /\ outfile = None
    /\ returned = None

Init ==
    /\ pc = "open"
    /\ PipelineIdle
    /\ NoCall

\* open(csv_file_path) raises FileNotFoundError: return False
FileNotFound ==
    /\ pc = "open"
    /\ returned' = Some(FALSE)
    /\ pc' = "done"
    /\ UNCHANGED <<meetings, last, nread, unsorted, outfile, arg, res, res2>>

\* the file opens, the sniffer finds a delimiter: the loop starts
OpenCsv ==
    /\ pc = "open"
    /\ pc' = "rows"
    /\ UNCHANGED <<meetings, last, nread, unsorted, outfile, returned, arg, res, res2>>

\* ReadFails with the list so far written out before it returns False
ReadFailsWritesPartial ==
    /\ pc \in {"open", "rows"}
    /\ outfile' = Some(meetings)
    /\ returned' = Some(FALSE)
    /\ pc' = "done"
    /\ UNCHANGED <<meetings, last, nread, unsorted, arg, res, res2>>

\* any other exception of the outer try: csvfile.read or the sniffer at the
\* start, or the reader between two rows (a decoding or csv.Error): return False
ReadFails ==
    /\ pc \in {"open", "rows"}
    /\ returned' = Some(FALSE)
    /\ pc' = "done"
    /\ UNCHANGED <<meetings, last, nread, unsorted, outfile, arg, res, res2>>

\* the effect of one iteration on the run's state
RowDone(row, today, result) ==
    /\ meetings' = AfterRow(meetings, result)
    /\ last' = [row |-> row, at |-> today,
                outcome |-> result.outcome, rec |-> result.rec]

\* one iteration of the for loop
ReadRow ==
    /\ pc = "rows"
    /\ nread < MaxRows
    /\ \E row \in RowSet, today \in Clock :
        \* every row of a file has the columns of the file's header
        /\ nread = 0 \/ DOMAIN row = DOMAIN last.row
        /\ RowDone(row, today, RowResults[row, today])
    /\ nread' = nread + 1
    /\ UNCHANGED <<pc, unsorted, outfile, returned, arg, res, res2>>

\* the reader is exhausted: the meetings are sorted
Sort ==
    /\ pc = "rows"
    /\ unsorted' = meetings
    /\ meetings' = SortMeetings(meetings)
    /\ pc' = "write"
    /\ UNCHANGED <<last, nread, outfile, returned, arg, res, res2>>

\* json.dump(meetings, jsonfile): return True
WriteJson ==
    /\ pc = "write"
    /\ outfile' = Some(meetings)
    /\ returned' = Some(TRUE)
    /\ pc' = "done"
    /\ UNCHANGED <<meetings, last, nread, unsorted, arg, res, res2>>

\* open(output_file_path, 'w') raises: return False
WriteFails ==
    /\ pc = "write"
    /\ returned' = Some(FALSE)
    /\ pc' = "done"
    /\ UNCHANGED <<meetings, last, nread, unsorted, outfile, arg, res, res2>>

Next ==
    \/ FileNotFound
    \/ OpenCsv
    \/ ReadFails
    \/ ReadRow
    \/ Sort
    \/ WriteJson
    \/ WriteFails

Spec == Init /\ [][Next]_vars

-----------------------------------------------------------------------------
(* The pure functions, each applied to every input of a bounded set *)

\* day and month fields run from 0 to MaxField, with and without a leading 0
MaxField == 32
\* years run from 2021, the sheet's first, to 2021 + YearSpan
YearSpan == 2
\* the longest text given to clean_text
MaxLen == 5

FieldTexts == {ToStr(n) : n \in 0..MaxField} \cup {Pad2(n) : n \in 0..9}
YearTexts == {ToStr(y) : y \in 2021..(2021 + YearSpan)}

DateTexts ==
    {a \o sep \o b \o sep \o y :
        a \in FieldTexts, b \in FieldTexts, y \in YearTexts,
        sep \in {"/", ".", "-"}}
    \cup {"", "  ", " 15/03/2021 ", "15/03/21", "3/ 5/2021", "2021-03-15",
          "15 March 2021", "15 mar 2021", "15  MARCH\t2021", "31 jun 2021",
          "March 15, 2021", "1/2/3/2021", "15.03.2021x"}

DateArgs == {Some(t) : t \in DateTexts} \cup {None}

RECURSIVE TextsUpTo(_)
TextsUpTo(n) ==
    IF n = 0 THEN {""}
    ELSE TextsUpTo(n - 1)
         \cup {t \o c : t \in TextsUpTo(n - 1), c \in {" ", "\n", "\t", "a", "B"}}

CleanArgs == {Some(t) : t \in TextsUpTo(MaxLen)} \cup {None}

TypeRows ==
    { [c \in {"Type of Session", "Event Name"} |->
          IF c = "Type of Session" THEN t ELSE e] :
        t \in {None, Some(""), Some("Seminar"), Some(" TALK "),
               Some("presentation"), Some("Journal  Club"),
               Some("reading\ngroup"), Some("Workshop"), Some("seminars")},
        e \in {None, Some(""), Some("TBA"), Some("to be announced"),
               Some("Intro to NLP"), Some("NLP Reading  Group: X"),
               Some("Journal Club: Transformers"), Some("Journalclub")} }
    \cup
    { [c \in {"Event Name"} |-> e] :
        e \in {Some("Intro to NLP"), Some("A JOURNAL CLUB")} }

InitDate == pc = "date_call" /\ PipelineIdle /\ arg \in DateArgs
            /\ res = None /\ res2 = None

CallParseDate ==
    /\ pc = "date_call"
    /\ res' = parse_date(arg)
    /\ pc' = "date_ret"
    /\ UNCHANGED <<meetings, last, nread, unsorted, outfile, returned, arg, res2>>

SpecDate == InitDate /\ [][CallParseDate]_vars

InitClean == pc = "clean_call" /\ PipelineIdle /\ arg \in CleanArgs
             /\ res = None /\ res2 = None

CallCleanText ==
    /\ pc = "clean_call"
    /\ res' = Some(clean_text(arg))
    /\ pc' = "clean_ret"
    /\ UNCHANGED <<meetings, last, nread, unsorted, outfile, returned, arg, res2>>

\* clean_text applied to its own result
CallCleanTextAgain ==
    /\ pc = "clean_ret"
    /\ res2' = Some(clean_text(res))
    /\ pc' = "clean_ret2"
    /\ UNCHANGED <<meetings, last, nread, unsorted, outfile, returned, arg, res>>

NextClean == CallCleanText \/ CallCleanTextAgain

SpecClean == InitClean /\ [][NextClean]_vars

InitType == pc = "type_call" /\ PipelineIdle /\ arg \in TypeRows
            /\ res = None /\ res2 = None

CallSessionType ==
    /\ pc = "type_call"
    /\ res' = Some(determine_session_type(arg))
    /\ pc' = "type_ret"
    /\ UNCHANGED <<meetings, last, nread, unsorted, outfile, returned, arg, res2>>

SpecType == InitType /\ [][CallSessionType]_vars

-----------------------------------------------------------------------------
(* Properties *)

Processed == last.outcome # "none"
Added == last.outcome = "added"
LastDateText == IF IsNone(Get(last.row, "Date")) THEN ""
                ELSE strip(Val(Get(last.row, "Date")))

\* s has the form a/b/yyyy: three runs of digits, the last of four
IsSlashDate(s) ==
    /\ Len(Split(s, "/")) = 3
    /\ \A i \in 1..3 : Split(s, "/")[i] # "" /\ AllDigits(Split(s, "/")[i])
    /\ Len(Split(s, "/")[3]) = 4

DayFirst(s) == strptime(s, FmtDMY)
MonthFirst(s) == strptime(s, FmtMDY)

\* the format cutover of the specification, 29 Sep 2022
FormatCutover == Date(2022, 9, 29)
\* the detail cutover of the specification, 28 Jul 2025
DetailCutover == Date(2025, 7, 28)

\* C1: for every input a/b/yyyy that is a calendar date read day-first or
\* month-first, parse_date returns a result, never None, and the result is the
\* day-first reading only if that reading is strictly after the format cutover
\* and the month-first reading only if that reading is on or before it.
C1_ParseDateTotal ==
    (pc = "date_ret" /\ ~IsNone(arg) /\ IsSlashDate(Val(arg))
        /\ (~IsNone(DayFirst(Val(arg))) \/ ~IsNone(MonthFirst(Val(arg)))))
    => /\ ~IsNone(res)
       /\ \/ /\ ~IsNone(DayFirst(Val(arg)))
             /\ DateKey(Val(DayFirst(Val(arg)))) > DateKey(FormatCutover)
             /\ res = Some(strftime(Val(DayFirst(Val(arg)))))
          \/ /\ ~IsNone(MonthFirst(Val(arg)))
             /\ DateKey(Val(MonthFirst(Val(arg)))) <= DateKey(FormatCutover)
             /\ res = Some(strftime(Val(MonthFirst(Val(arg)))))

\* only the day-first reading of s is a calendar date: its first field is > 12
DayFirstOnly(s) ==
    /\ IsSlashDate(s)
    /\ ToInt(Split(s, "/")[1]) > 12
    /\ ~IsNone(DayFirst(s))

CleanedPresenter == clean_text(Get(last.row, "Presenter"))
CleanedEventName == clean_text(Get(last.row, "Event Name"))

\* the row read last is a placeholder
IsPlaceholder ==
    \/ lower(CleanedPresenter) = "free for booking"
    \/ lower(CleanedEventName) = "free for booking"
    \/ (CleanedPresenter = "" /\ CleanedEventName = "")

\* C2: the row of scenario A is emitted as the record {date 15.03.2021,
\* presenter Dr. Smith, title Intro to NLP, type seminar}; in general a row that
\* is no placeholder and whose slash date has a first field greater than 12 is
\* emitted with its date normalised day-first, also on or before the cutover.
C2_DayFirstEmitted ==
    Processed =>
        /\ last.row = ScenarioA =>
              /\ Added
              /\ last.rec = Some([date |-> "15.03.2021", presenter |-> "Dr. Smith",
                                  title |-> "Intro to NLP", type |-> "seminar"])
        /\ (DayFirstOnly(LastDateText) /\ ~IsPlaceholder) =>
              /\ Added
              /\ Val(last.rec).date = strftime(Val(DayFirst(LastDateText)))

\* C3: a placeholder row (cleaned Presenter or Event Name equal to "free for
\* booking" ignoring case, or both empty) is dropped whatever its date and other
\* columns, and no record of the list carries the placeholder text.
C3_PlaceholderDropped ==
    /\ (Processed /\ IsPlaceholder) => (~Added /\ IsNone(last.rec))
    /\ \A i \in DOMAIN meetings :
          /\ lower(meetings[i].presenter) # "free for booking"
          /\ lower(meetings[i].title) # "free for booking"

\* a placeholder in capitals and with runs of whitespace was read and dropped
\* after another row had been accepted
C3_Witness ==
    /\ last.outcome = "free_slot"
    /\ Get(last.row, "Presenter") = Some("  FREE  for\nBooking ")
    /\ Len(meetings) = 1

RecordDate(x) == Val(strptime(x.date, FmtDot))

Count(seq, x) == Cardinality({i \in DOMAIN seq : seq[i] = x})

\* the calendar date of each record of seq, as a number
DateKeys(seq) == [i \in DOMAIN seq |-> DateKey(RecordDate(seq[i]))]

\* the records of seq whose date is k, in their order in seq, from the i-th on
RECURSIVE OfDate(_, _, _, _)
OfDate(seq, keys, k, i) ==
    IF i > Len(seq) THEN <<>>
    ELSE (IF keys[i] = k THEN <<seq[i]>> ELSE <<>>) \o OfDate(seq, keys, k, i + 1)

\* C4: the list written is a permutation of the accepted records, non-increasing
\* by the calendar date parsed from the date field, and records of the same date
\* keep the order of their rows.
C4_SortedStable ==
    ~IsNone(outfile) =>
        LET out == Val(outfile)
            keys == DateKeys(Val(outfile))
            keys_in == DateKeys(unsorted)
        IN  /\ Len(out) = Len(unsorted)
            /\ \A i \in DOMAIN out : Count(out, out[i]) = Count(unsorted, out[i])
            /\ \A i \in DOMAIN out : \A j \in DOMAIN out :
                  i < j => keys[i] >= keys[j]
            /\ \A i \in DOMAIN out :
                  OfDate(out, keys, keys[i], 1) = OfDate(unsorted, keys_in, keys[i], 1)

\* two different records of one calendar date were written
C4_Witness ==
    /\ ~IsNone(outfile)
    /\ Len(Val(outfile)) = 2
    /\ Val(outfile)[1] # Val(outfile)[2]
    /\ DateKey(RecordDate(Val(outfile)[1])) = DateKey(RecordDate(Val(outfile)[2]))

\* C5: a row that is skipped leaves the records of the other rows as they were
\* and the loop goes on; a row that is accepted adds its own record and nothing
\* else; a failure to open or read the input returns False with the output file
\* neither opened nor written.
C5_FailuresContained ==
    [][ /\ (pc = "rows" /\ nread' = nread + 1) =>
              /\ pc' = "rows"
              /\ returned' = None
              /\ IF last'.outcome = "added"
                 THEN meetings' = Append(meetings, Val(last'.rec))
                 ELSE meetings' = meetings
        /\ (pc \in {"open", "rows"} /\ pc' = "done") =>
              /\ returned' = Some(FALSE)
              /\ outfile' = None
      ]_vars

\* a row was skipped, the next was accepted, then reading failed: False is
\* returned and nothing is written
C5_Witness ==
    /\ pc = "done"
    /\ returned = Some(FALSE)
    /\ IsNone(outfile)
    /\ nread = 2
    /\ Len(meetings) = 1
    /\ Added

CleanedAbstract == clean_text(Get(last.row, "Abstract"))

\* C6: a record dated before the detail cutover has no abstract; after it a
\* seminar has the cleaned Abstract, or "TBA" when that is empty, and a
\* journal club has an abstract exactly when the cleaned Abstract is not empty;
\* scenario C gives a journal_club record without abstract.
C6_AbstractVisibility ==
    Added =>
        LET rec == Val(last.rec)
        IN  /\ DateKey(RecordDate(rec)) < DateKey(DetailCutover) =>
                  "abstract" \notin DOMAIN rec
            /\ (DateKey(RecordDate(rec)) > DateKey(DetailCutover)
                    /\ rec.type = "seminar") =>
                  /\ "abstract" \in DOMAIN rec
                  /\ rec.abstract = IF CleanedAbstract # "" THEN CleanedAbstract
                                    ELSE "TBA"
            /\ (DateKey(RecordDate(rec)) > DateKey(DetailCutover)
                    /\ rec.type = "journal_club") =>
                  /\ "abstract" \in DOMAIN rec <=> CleanedAbstract # ""
                  /\ "abstract" \in DOMAIN rec => rec.abstract = CleanedAbstract
            /\ last.row = ScenarioC =>
                  rec.type = "journal_club" /\ "abstract" \notin DOMAIN rec

\* scenario C was read and its record emitted
C6_Witness == Added /\ last.row = ScenarioC

\* the meeting's midnight is strictly after the clock value
StrictlyAfter(meeting_date, today) ==
    \/ DateKey(meeting_date) > DateKey(today.date)
    \/ (DateKey(meeting_date) = DateKey(today.date) /\ 0 > today.secs)

CleanedRoom == clean_text(Get(last.row, "Room"))
CleanedZoom == clean_text(Get(last.row, "Zoom Link"))

\* C7: a record has a location exactly when its date is strictly after the
\* time of processing; the value is the room string when the cleaned Room is
\* not empty, the online string when only the cleaned Zoom Link is not empty,
\* and "TBA" when both are empty.
C7_LocationVisibility ==
    Added =>
        LET rec == Val(last.rec)
        IN  /\ "location" \in DOMAIN rec <=> StrictlyAfter(RecordDate(rec), last.at)
            /\ "location" \in DOMAIN rec =>
                  rec.location =
                      IF CleanedRoom # ""
                      THEN CleanedRoom \o " (Alan Turing Institute) & online"
                      ELSE IF CleanedZoom # "" THEN "Online (Zoom)"
                      ELSE "TBA"

\* a meeting with a room, dated the very midnight the clock shows, was emitted
\* without location
C7_Witness ==
    /\ Added
    /\ CleanedRoom # ""
    /\ RecordDate(Val(last.rec)) = last.at.date
    /\ last.at.secs = 0
    /\ "location" \notin DOMAIN Val(last.rec)

\* s is DD.MM.YYYY: two digits, a dot, two digits, a dot, four digits
IsCanonicalDate(s) ==
    /\ Len(s) = 10
    /\ \A i \in {1, 2, 4, 5, 7, 8, 9, 10} : IsDigit(Ch(s, i))
    /\ Ch(s, 3) = "." /\ Ch(s, 6) = "."
    /\ ~IsNone(strptime(s, FmtDot))

\* C8: every record emitted carries a date in the canonical format DD.MM.YYYY
\* that parses back to a calendar date, also when parse_date accepted the
\* dotted input as it was.
C8_CanonicalDates ==
    \A i \in DOMAIN meetings : IsCanonicalDate(meetings[i].date)

\* C9: clean_text has a result for every input, None and the empty and
\* whitespace-only strings included; applying it to its result changes
\* nothing; the result neither starts nor ends with whitespace and holds no
\* two whitespace characters in a row.
C9_CleanTextIdempotent ==
    /\ pc \in {"clean_ret", "clean_ret2"} =>
          /\ ~IsNone(res)
          /\ Val(res) = "" \/ (Ch(Val(res), 1) \notin WhiteSpace
                               /\ Ch(Val(res), Len(Val(res))) \notin WhiteSpace)
          /\ \A i \in 1..(Len(Val(res)) - 1) :
                ~(Ch(Val(res), i) \in WhiteSpace /\ Ch(Val(res), i + 1) \in WhiteSpace)
          /\ (IsNone(arg) \/ strip(Val(arg)) = "") => Val(res) = ""
    /\ pc = "clean_ret2" => res2 = res

\* a text with whitespace at an end and a run of it inside was cleaned twice
C9_Witness ==
    /\ pc = "clean_ret2"
    /\ arg = Some(" a\n\tB")
    /\ res = Some("a B")

TypeField == lower(clean_text(Get(arg, "Type of Session")))
NameField == lower(clean_text(Get(arg, "Event Name")))
NameHints == Contains("reading group", NameField) \/ Contains("journal club", NameField)

\* C10: a recognised Type of Session decides the type, whatever the event
\* name says; only with that column absent or unrecognised does an event name
\* containing "reading group" or "journal club" give journal_club; every other
\* row is a seminar.
C10_SessionTypePriority ==
    pc = "type_ret" =>
        /\ Val(res) \in {"seminar", "journal_club"}
        /\ TypeField \in {"seminar", "talk", "presentation"} => Val(res) = "seminar"
        /\ TypeField \in {"journal club", "reading group"} => Val(res) = "journal_club"
        /\ TypeField \notin {"seminar", "talk", "presentation", "journal club",
                             "reading group"} =>
              Val(res) = IF NameHints THEN "journal_club" ELSE "seminar"

\* the type column says talk and the event name says journal club: a seminar
C10_Witness ==
    /\ pc = "type_ret"
    /\ TypeField = "talk"
    /\ NameHints
    /\ res = Some("seminar")

====
